---- MODULE Spec2Model ----
(***************************************************************************)
(* A model of the to-do list web application of app.py: the User and Task *)
(* tables and the login session of one browser.  A route handler is an    *)
(* operator from the state it finds and the request's form fields to the  *)
(* state it commits and the response it gives; the action of a route      *)
(* serves one whole request, from the login_required check to the commit  *)
(* and the redirect.                                                      *)
(***************************************************************************)
EXTENDS Integers, Sequences, FiniteSets, TLC

VARIABLES
    users,      \* the User table: id -> [username, email, password]
    tasks,      \* the Task table: id -> [content, done, due_date, user_id]
    session,    \* the user id flask-login keeps in the session cookie, or None
    regpw,      \* history: id -> the plaintext password given at registration
    inflight    \* the requests the server's threads are serving at once:
                \* thread -> [route, form fields, pc, value, resp]

vars == <<users, tasks, session, regpw, inflight>>

---------------------------------------------------------------------------
(* Bounds of the model and the inputs requests are drawn from.             *)

\* Task ids the database hands out, 1..MaxTaskId.
MaxTaskId == 2

TaskIds == 1..MaxTaskId

Usernames == {"alice", "bob"}

Emails == {"a@x.com", "b@x.com"}

Passwords == {"pw", "pw2"}

\* Salts generate_password_hash may draw.
Salts == {"s1"}

\* Text of the content and edit_text form fields; "" is the empty field.
Texts == {"", "Buy milk", "Call mom"}

\* Text of the due_date form field, one character per element.
DateTexts ==
    { <<>>,
      <<"2","0","2","4","-","0","2","-","2","9">>,
      <<"2","0","2","4","-","2","-","2","9">>,
      <<"2","0","2","4","-","0","2","-","3","0">>,
      <<"2","0","2","3","-","0","2","-","2","9">>,
      <<"2","0","9","9","-","0","1","-","0","1">>,
      <<"2","0","9","9","-","0","1","-"," ","1">>,
      <<"2","0","2","4","-","1","3","-","0","1">>,
      <<"0","1","-","0","1","-","2","0","2","4">>,
      <<"2","0","2","4","-","0","2","-","2","9","x">> }

\* Values datetime.now() may return: the day before 2024-02-29, its
\* midnight and a later instant of it, as <<year, month, day, time of day>>.
Nows == { <<2024, 2, 28, 1>>, <<2024, 2, 29, 0>>, <<2024, 2, 29, 1>> }

---------------------------------------------------------------------------
(* Values.                                                                 *)

\* No user: the session of an anonymous browser, the result of a failed get.
None == 0

\* A column that holds NULL.
Null == <<>>

NoStats ==
    [total_tasks |-> 0, completed_tasks |-> 0, pending_tasks |-> 0,
     overdue_tasks |-> 0]

\* redirect(target), after flash(msg) when msg is not "".
Redirect(msg, target) ==
    [flash |-> msg, kind |-> "redirect", target |-> target, tasks |-> {},
     stats |-> NoStats]

\* render_template(template), after flash(msg) when msg is not "".
Render(msg, template) ==
    [flash |-> msg, kind |-> "render", target |-> template, tasks |-> {},
     stats |-> NoStats]

\* The state a handler finds: the tables and the session, with the place
\* of its response.
State ==
    [users |-> users, tasks |-> tasks, session |-> session, regpw |-> regpw,
     resp |-> Render("", "")]

\* The database after db.create_all(), nobody logged in.
EmptyState ==
    [users |-> <<>>, tasks |-> <<>>, session |-> None, regpw |-> <<>>,
     resp |-> Render("", "")]

---------------------------------------------------------------------------
(* werkzeug.security: a salted one-way hash, as a symbolic term.           *)

Pbkdf2(salt, password) == <<"pbkdf2:sha256", salt, password>>

\* generate_password_hash with a method check_password_hash does not use.
generate_password_hash_plain(password, salt) ==
    [method |-> "plain", salt |-> salt, digest |-> <<"plain", salt, password>>]

generate_password_hash(password, salt) ==
    [method |-> "pbkdf2:sha256", salt |-> salt,
     digest |-> Pbkdf2(salt, password)]

\* check_password_hash that accepts every password.
check_password_hash_any(pwhash, password) == TRUE

check_password_hash(pwhash, password) ==
    pwhash.digest = Pbkdf2(pwhash.salt, password)

---------------------------------------------------------------------------
(* flask-login.                                                            *)

\* User.query.get(int(user_id))
load_user(s, user_id) == IF user_id \in DOMAIN s.users THEN user_id ELSE None

\* The id of current_user, None for the anonymous user.
current_user(s) == IF s.session = None THEN None ELSE load_user(s, s.session)

\* is_authenticated that holds of the anonymous user too.
is_authenticated_always(s) == TRUE

is_authenticated(s) == current_user(s) # None

\* What login_required answers when the user is anonymous.
unauthorized(s) ==
    [s EXCEPT !.resp = Redirect("Please log in to access this page.", "/login")]

---------------------------------------------------------------------------
(* Queries.                                                                *)

\* User.query.filter_by(username=username).first()
UserByUsername(s, username) ==
    IF \E u \in DOMAIN s.users : s.users[u].username = username
    THEN CHOOSE u \in DOMAIN s.users : s.users[u].username = username
    ELSE None

\* UserByEmail that finds no row.
UserByEmailNever(s, email) == None

\* User.query.filter_by(email=email).first()
UserByEmail(s, email) ==
    IF \E u \in DOMAIN s.users : s.users[u].email = email
    THEN CHOOSE u \in DOMAIN s.users : s.users[u].email = email
    ELSE None

\* TasksOf without the filter on the owner.
TasksOfAnyone(s, user_id) ==
    { [id |-> t, content |-> s.tasks[t].content, done |-> s.tasks[t].done,
       due_date |-> s.tasks[t].due_date, user_id |-> s.tasks[t].user_id] :
      t \in DOMAIN s.tasks }

\* Task.query.filter_by(user_id=user_id).all(), each row with its id.
TasksOf(s, user_id) ==
    { [id |-> t, content |-> s.tasks[t].content, done |-> s.tasks[t].done,
       due_date |-> s.tasks[t].due_date, user_id |-> s.tasks[t].user_id] :
      t \in { i \in DOMAIN s.tasks : s.tasks[i].user_id = user_id } }

\* Task.query.get(task_id)
GetTask(s, task_id) == IF task_id \in DOMAIN s.tasks THEN task_id ELSE None

\* Owned without the comparison of the owner with the current user.
OwnedByAnyone(s, task) == task # None

\* task and task.user_id == current_user.id
Owned(s, task) == task # None /\ s.tasks[task].user_id = current_user(s)

\* db.session.add(row) and the commit: the table with the row under id.
Insert(table, id, row) ==
    [k \in DOMAIN table \cup {id} |-> IF k = id THEN row ELSE table[k]]

\* db.session.delete(row) and the commit.
Delete(table, id) == [k \in DOMAIN table \ {id} |-> table[k]]

---------------------------------------------------------------------------
(* datetime.strptime(text, '%Y-%m-%d').                                    *)

Digits == {"0", "1", "2", "3", "4", "5", "6", "7", "8", "9"}

NonZeroDigits == Digits \ {"0"}

DigitValue(c) ==
    CASE c = "0" -> 0 [] c = "1" -> 1 [] c = "2" -> 2 [] c = "3" -> 3
      [] c = "4" -> 4 [] c = "5" -> 5 [] c = "6" -> 6 [] c = "7" -> 7
      [] c = "8" -> 8 [] c = "9" -> 9 [] OTHER -> 0

\* int(s) of a string of digits, a leading blank allowed.
RECURSIVE ToInt(_)
ToInt(s) ==
    IF s = <<>> THEN 0
    ELSE 10 * ToInt(SubSeq(s, 1, Len(s) - 1)) + DigitValue(s[Len(s)])

\* %Y: \d\d\d\d
MatchesY(s) == Len(s) = 4 /\ \A i \in 1..4 : s[i] \in Digits

\* %m: 1[0-2]|0[1-9]|[1-9]
MatchesM(s) ==
    \/ Len(s) = 2 /\ s[1] = "1" /\ s[2] \in {"0", "1", "2"}
    \/ Len(s) = 2 /\ s[1] = "0" /\ s[2] \in NonZeroDigits
    \/ Len(s) = 1 /\ s[1] \in NonZeroDigits

\* %d: 3[0-1]|[1-2]\d|0[1-9]|[1-9]| [1-9]
MatchesD(s) ==
    \/ Len(s) = 2 /\ s[1] = "3" /\ s[2] \in {"0", "1"}
    \/ Len(s) = 2 /\ s[1] \in {"1", "2"} /\ s[2] \in Digits
    \/ Len(s) = 2 /\ s[1] = "0" /\ s[2] \in NonZeroDigits
    \/ Len(s) = 1 /\ s[1] \in NonZeroDigits
    \/ Len(s) = 2 /\ s[1] = " " /\ s[2] \in NonZeroDigits

\* The whole of text matches %Y-%m-%d with a month of ml and a day of dl
\* characters.
MatchesFormat(text, ml, dl) ==
    /\ Len(text) = 6 + ml + dl
    /\ MatchesY(SubSeq(text, 1, 4))
    /\ text[5] = "-"
    /\ MatchesM(SubSeq(text, 6, 5 + ml))
    /\ text[6 + ml] = "-"
    /\ MatchesD(SubSeq(text, 7 + ml, 6 + ml + dl))

isleap(year) == year % 4 = 0 /\ (year % 100 # 0 \/ year % 400 = 0)

DaysInMonth(year, month) ==
    IF month = 2 THEN (IF isleap(year) THEN 29 ELSE 28)
    ELSE IF month \in {4, 6, 9, 11} THEN 30 ELSE 31

\* strptime raises ValueError.
ValueError == <<"ValueError">>

\* strptime without the datetime constructor's check of the day.
strptime_any_day(text) ==
    IF \E ml \in 1..2, dl \in 1..2 : MatchesFormat(text, ml, dl)
    THEN LET ml == CHOOSE m \in 1..2 :
                       \E dl \in 1..2 : MatchesFormat(text, m, dl)
         IN  <<ToInt(SubSeq(text, 1, 4)), ToInt(SubSeq(text, 6, 5 + ml)),
               ToInt(SubSeq(text, 7 + ml, Len(text))), 0>>
    ELSE ValueError

\* strptime that takes the empty text for no date.
strptime_optional(text) ==
    IF text = <<>> THEN Null
    ELSE IF \E ml \in 1..2, dl \in 1..2 : MatchesFormat(text, ml, dl)
    THEN LET ml == CHOOSE m \in 1..2 :
                       \E dl \in 1..2 : MatchesFormat(text, m, dl)
             year == ToInt(SubSeq(text, 1, 4))
             month == ToInt(SubSeq(text, 6, 5 + ml))
             day == ToInt(SubSeq(text, 7 + ml, Len(text)))
         IN  IF year >= 1 /\ day <= DaysInMonth(year, month)
             THEN <<year, month, day, 0>>
             ELSE ValueError
    ELSE ValueError

\* The datetime <<year, month, day, 0>> at midnight, or ValueError: the text
\* does not match the format, data remains after the match, or the
\* datetime constructor refuses the year or the day.
strptime(text) ==
    IF \E ml \in 1..2, dl \in 1..2 : MatchesFormat(text, ml, dl)
    THEN LET ml == CHOOSE m \in 1..2 :
                       \E dl \in 1..2 : MatchesFormat(text, m, dl)
             year == ToInt(SubSeq(text, 1, 4))
             month == ToInt(SubSeq(text, 6, 5 + ml))
             day == ToInt(SubSeq(text, 7 + ml, Len(text)))
         IN  IF year >= 1 /\ day <= DaysInMonth(year, month)
             THEN <<year, month, day, 0>>
             ELSE ValueError
    ELSE ValueError

\* a <= b in the place of a < b.
DatetimeLessOrEqual(a, b) ==
    \/ a[1] < b[1]
    \/ a[1] = b[1] /\ a[2] < b[2]
    \/ a[1] = b[1] /\ a[2] = b[2] /\ a[3] < b[3]
    \/ a[1] = b[1] /\ a[2] = b[2] /\ a[3] = b[3] /\ a[4] <= b[4]

\* a < b on datetimes.
DatetimeLess(a, b) ==
    \/ a[1] < b[1]
    \/ a[1] = b[1] /\ a[2] < b[2]
    \/ a[1] = b[1] /\ a[2] = b[2] /\ a[3] < b[3]
    \/ a[1] = b[1] /\ a[2] = b[2] /\ a[3] = b[3] /\ a[4] < b[4]

---------------------------------------------------------------------------
(* Authentication routes.                                                  *)

home(s) ==
    IF is_authenticated(s) THEN [s EXCEPT !.resp = Redirect("", "/index")]
    ELSE [s EXCEPT !.resp = Redirect("", "/register")]

register_get(s) == [s EXCEPT !.resp = Render("", "register.html")]

\* register that, for a username already taken, replaces that user's email
\* and password.
register_upsert(s, username, email, password, salt) ==
    IF UserByUsername(s, username) # None
    THEN [s EXCEPT !.users[UserByUsername(s, username)] =
                       [username |-> username, email |-> email,
                        password |-> generate_password_hash(password, salt)],
                   !.regpw[UserByUsername(s, username)] = password,
                   !.resp = Redirect("Registration successful! Please log in.",
                                     "/login")]
    ELSE IF UserByEmail(s, email) # None
    THEN [s EXCEPT !.resp =
              Redirect("Email already registered. Please log in.", "/login")]
    ELSE LET id == Cardinality(DOMAIN s.users) + 1
             new_user == [username |-> username, email |-> email,
                          password |-> generate_password_hash(password, salt)]
         IN  [s EXCEPT !.users = Insert(s.users, id, new_user),
                       !.regpw = Insert(s.regpw, id, password),
                       !.resp = Redirect("Registration successful! Please log in.",
                                         "/login")]

\* salt is the salt generate_password_hash draws.
register(s, username, email, password, salt) ==
    IF UserByUsername(s, username) # None
    THEN [s EXCEPT !.resp =
              Redirect("Username already exists. Please choose another one.",
                       "/register")]
    ELSE IF UserByEmail(s, email) # None
    THEN [s EXCEPT !.resp =
              Redirect("Email already registered. Please log in.", "/login")]
    ELSE LET id == Cardinality(DOMAIN s.users) + 1
             new_user == [username |-> username, email |-> email,
                          password |-> generate_password_hash(password, salt)]
         IN  [s EXCEPT !.users = Insert(s.users, id, new_user),
                       !.regpw = Insert(s.regpw, id, password),
                       !.resp = Redirect("Registration successful! Please log in.",
                                         "/login")]

login_get(s) == [s EXCEPT !.resp = Render("", "login.html")]

login(s, username, password) ==
    LET user == UserByUsername(s, username) IN
    IF user # None
    THEN IF check_password_hash(s.users[user].password, password)
         THEN [s EXCEPT !.session = user,
                        !.resp = Redirect("Login successful!", "/index")]
         ELSE [s EXCEPT !.resp = Render("Login failed. Incorrect password.",
                                        "login.html")]
    ELSE [s EXCEPT !.resp = Redirect("Username does not exist. Please register.",
                                     "/register")]

logout(s) ==
    IF ~is_authenticated(s) THEN unauthorized(s)
    ELSE [s EXCEPT !.session = None,
                   !.resp = Redirect("You have logged out.", "/login")]

---------------------------------------------------------------------------
(* Task routes.                                                            *)

tasks_list(s) ==
    IF ~is_authenticated(s) THEN unauthorized(s)
    ELSE [s EXCEPT !.resp = [Render("", "index.html") EXCEPT
                                 !.tasks = TasksOf(s, current_user(s))]]

\* id is the primary key the database gives the new row.
add_task(s, content, due_date, id) ==
    IF ~is_authenticated(s) THEN unauthorized(s)
    ELSE IF content = ""
    THEN [s EXCEPT !.resp = Redirect("Please enter text for your task", "/index")]
    ELSE IF strptime(due_date) = ValueError
    THEN [s EXCEPT !.resp = Redirect("Invalid date format. Please use YYYY-MM-DD.",
                                     "/index")]
    ELSE LET task == [content |-> content, done |-> FALSE,
                      due_date |-> strptime(due_date),
                      user_id |-> current_user(s)]
         IN  [s EXCEPT !.tasks = Insert(s.tasks, id, task),
                       !.resp = Redirect("Task added successfully!", "/index")]

\* toggle_status that sets the flag instead of flipping it.
toggle_status_set(s, task_id) ==
    LET task == GetTask(s, task_id) IN
    IF ~is_authenticated(s) THEN unauthorized(s)
    ELSE IF Owned(s, task)
    THEN [s EXCEPT !.tasks[task].done = TRUE,
                   !.resp = Redirect("Task status updated.", "/index")]
    ELSE [s EXCEPT !.resp = Redirect("Task not found or unauthorized action.",
                                     "/index")]

toggle_status(s, task_id) ==
    LET task == GetTask(s, task_id) IN
    IF ~is_authenticated(s) THEN unauthorized(s)
    ELSE IF Owned(s, task)
    THEN [s EXCEPT !.tasks[task].done = ~s.tasks[task].done,
                   !.resp = Redirect("Task status updated.", "/index")]
    ELSE [s EXCEPT !.resp = Redirect("Task not found or unauthorized action.",
                                     "/index")]

\* edit_task without the check of the empty text.
edit_task_any_text(s, task_id, edit_text) ==
    LET task == GetTask(s, task_id) IN
    IF ~is_authenticated(s) THEN unauthorized(s)
    ELSE IF Owned(s, task)
    THEN [s EXCEPT !.tasks[task].content = edit_text,
                   !.resp = Redirect("Task updated successfully.", "/index")]
    ELSE [s EXCEPT !.resp = Redirect("Task not found or unauthorized action.",
                                     "/index")]

edit_task(s, task_id, edit_text) ==
    LET task == GetTask(s, task_id) IN
    IF ~is_authenticated(s) THEN unauthorized(s)
    ELSE IF edit_text = ""
    THEN [s EXCEPT !.resp = Redirect("Please enter text for your task", "/index")]
    ELSE IF Owned(s, task)
    THEN [s EXCEPT !.tasks[task].content = edit_text,
                   !.resp = Redirect("Task updated successfully.", "/index")]
    ELSE [s EXCEPT !.resp = Redirect("Task not found or unauthorized action.",
                                     "/index")]

\* delete_task without the ownership check.
delete_task_unchecked(s, task_id) ==
    LET task == GetTask(s, task_id) IN
    IF ~is_authenticated(s) THEN unauthorized(s)
    ELSE IF task # None
    THEN [s EXCEPT !.tasks = Delete(s.tasks, task),
                   !.resp = Redirect("Task deleted successfully.", "/index")]
    ELSE [s EXCEPT !.resp = Redirect("Task not found or unauthorized action.",
                                     "/index")]

delete_task(s, task_id) ==
    LET task == GetTask(s, task_id) IN
    IF ~is_authenticated(s) THEN unauthorized(s)
    ELSE IF Owned(s, task)
    THEN [s EXCEPT !.tasks = Delete(s.tasks, task),
                   !.resp = Redirect("Task deleted successfully.", "/index")]
    ELSE [s EXCEPT !.resp = Redirect("Task not found or unauthorized action.",
                                     "/index")]

\* ResolveRows over the tasks of every user.
ResolveRowsOfAnyone(s, user_id) ==
    [t \in DOMAIN s.tasks |->
         IF ~s.tasks[t].done THEN [s.tasks[t] EXCEPT !.done = TRUE]
         ELSE s.tasks[t]]

\* for task in tasks: if not task.done: task.done = True
ResolveRows(s, user_id) ==
    [t \in DOMAIN s.tasks |->
         IF s.tasks[t].user_id = user_id /\ ~s.tasks[t].done
         THEN [s.tasks[t] EXCEPT !.done = TRUE]
         ELSE s.tasks[t]]

resolve_tasks(s) ==
    IF ~is_authenticated(s) THEN unauthorized(s)
    ELSE [s EXCEPT !.tasks = ResolveRows(s, current_user(s)),
                   !.resp = Redirect("All tasks marked as completed.", "/index")]

\* sum(task.due_date < now and not task.done for task in tasks if task.due_date)
OverdueCount(rows, now) ==
    Cardinality({ t \in { x \in rows : x.due_date # Null } :
                      DatetimeLess(t.due_date, now) /\ ~t.done })

\* now is the value of datetime.now().
analytics(s, now) ==
    LET rows == TasksOf(s, current_user(s))
        total_tasks == Cardinality(rows)
        completed_tasks == Cardinality({ t \in rows : t.done })
        pending_tasks == total_tasks - completed_tasks
        overdue_tasks == OverdueCount(rows, now)
    IN
    IF ~is_authenticated(s) THEN unauthorized(s)
    ELSE [s EXCEPT !.resp = [Render("", "analytics.html") EXCEPT
                                 !.stats = [total_tasks |-> total_tasks,
                                            completed_tasks |-> completed_tasks,
                                            pending_tasks |-> pending_tasks,
                                            overdue_tasks |-> overdue_tasks]]]

---------------------------------------------------------------------------
(* The state machine: db.create_all() on an empty database, then one       *)
(* request after another.                                                  *)

Init ==
    /\ users = <<>>
    /\ tasks = <<>>
    /\ session = None
    /\ regpw = <<>>
    /\ inflight = <<>>

\* The handler's commit and the session cookie it sets.
Handle(result) ==
    /\ users' = result.users
    /\ tasks' = result.tasks
    /\ session' = result.session
    /\ regpw' = result.regpw
    /\ UNCHANGED inflight

Next ==
    \/ Handle(home(State))
    \/ Handle(register_get(State))
    \/ \E username \in Usernames, email \in Emails, password \in Passwords,
          salt \in Salts :
          Handle(register(State, username, email, password, salt))
    \/ Handle(login_get(State))
    \/ \E username \in Usernames, password \in Passwords :
          Handle(login(State, username, password))
    \/ Handle(logout(State))
    \/ Handle(tasks_list(State))
    \/ \E content \in Texts, due_date \in DateTexts,
          id \in TaskIds \ DOMAIN tasks :
          Handle(add_task(State, content, due_date, id))
    \/ \E task_id \in TaskIds : Handle(toggle_status(State, task_id))
    \/ \E task_id \in TaskIds, edit_text \in Texts :
          Handle(edit_task(State, task_id, edit_text))
    \/ \E task_id \in TaskIds : Handle(delete_task(State, task_id))
    \/ Handle(resolve_tasks(State))
    \/ \E now \in Nows : Handle(analytics(State, now))

Spec == Init /\ [][Next]_vars

---------------------------------------------------------------------------
(* Requests served at once.  The server gives each request a thread and a *)
(* database session of its own, and the handlers take no lock: between a  *)
(* query of a handler and its commit the other thread may run.  A thread  *)
(* serves a register or a toggle request, one statement that reaches the  *)
(* database per step; both threads carry the cookie of the same browser.  *)

Workers == {"w1", "w2"}

RegisterRequest(username, email, password, salt) ==
    [route |-> "/register", username |-> username, email |-> email,
     password |-> password, salt |-> salt, task_id |-> None,
     pc |-> "check_username", value |-> FALSE, resp |-> Render("", "")]

ToggleRequest(task_id) ==
    [route |-> "/toggle", username |-> "", email |-> "", password |-> "",
     salt |-> "", task_id |-> task_id, pc |-> "get", value |-> FALSE,
     resp |-> Render("", "")]

RaceRequests ==
    { RegisterRequest(username, email, password, salt) :
          username \in Usernames, email \in Emails, password \in Passwords,
          salt \in Salts }
    \cup { ToggleRequest(task_id) : task_id \in TaskIds }

\* The states the threads start from: the empty database, and the one that
\* register, login and add_task have made, alice logged in with one task.
RaceStarts ==
    { EmptyState,
      add_task(login(register(EmptyState, "alice", "a@x.com", "pw", "s1"),
                     "alice", "pw"),
               "Buy milk", <<"2","0","2","4","-","0","2","-","2","9">>, 1) }

\* The response to a request whose handler raised: the raw error page.
InternalServerError ==
    [flash |-> "", kind |-> "error", target |-> "500", tasks |-> {},
     stats |-> NoStats]

\* A User table without the unique constraints.
UniqueViolationNever(s, username, email) == FALSE

\* The INSERT would break unique=True of User.username or of User.email.
UniqueViolation(s, username, email) ==
    \E u \in DOMAIN s.users :
        s.users[u].username = username \/ s.users[u].email = email

\* The thread ends its request with this response.
Finish(w, response) ==
    inflight' = [inflight EXCEPT ![w].pc = "done", ![w].resp = response]

Goto(w, pc) == inflight' = [inflight EXCEPT ![w].pc = pc]

\* if User.query.filter_by(username=username).first(): ...
RegisterCheckUsername(w) ==
    /\ inflight[w].pc = "check_username"
    /\ IF UserByUsername(State, inflight[w].username) # None
       THEN Finish(w, Redirect("Username already exists. Please choose another one.",
                               "/register"))
       ELSE Goto(w, "check_email")
    /\ UNCHANGED <<users, tasks, session, regpw>>

\* if User.query.filter_by(email=email).first(): ...
RegisterCheckEmail(w) ==
    /\ inflight[w].pc = "check_email"
    /\ IF UserByEmail(State, inflight[w].email) # None
       THEN Finish(w, Redirect("Email already registered. Please log in.",
                               "/login"))
       ELSE Goto(w, "commit")
    /\ UNCHANGED <<users, tasks, session, regpw>>

\* db.session.add(new_user); db.session.commit(): the commit raises
\* IntegrityError, which nothing catches, when a row with the username or
\* the email has been committed since the checks.
RegisterCommit(w) ==
    LET r == inflight[w]
        id == Cardinality(DOMAIN users) + 1
        new_user == [username |-> r.username, email |-> r.email,
                     password |-> generate_password_hash(r.password, r.salt)]
    IN
    /\ r.pc = "commit"
    /\ r.route = "/register"
    /\ IF UniqueViolation(State, r.username, r.email)
       THEN /\ Finish(w, InternalServerError)
            /\ UNCHANGED <<users, regpw>>
       ELSE /\ users' = Insert(users, id, new_user)
            /\ regpw' = Insert(regpw, id, r.password)
            /\ Finish(w, Redirect("Registration successful! Please log in.",
                                  "/login"))
    /\ UNCHANGED <<tasks, session>>

\* login_required, task = Task.query.get(task_id) and, for the owner,
\* task.done = not task.done: the new flag is computed from the row read.
ToggleGet(w) ==
    LET task == GetTask(State, inflight[w].task_id) IN
    /\ inflight[w].pc = "get"
    /\ IF ~is_authenticated(State) THEN Finish(w, unauthorized(State).resp)
       ELSE IF Owned(State, task)
       THEN inflight' = [inflight EXCEPT ![w].pc = "commit",
                                         ![w].value = ~tasks[task].done]
       ELSE Finish(w, Redirect("Task not found or unauthorized action.",
                               "/index"))
    /\ UNCHANGED <<users, tasks, session, regpw>>

\* db.session.commit(): the UPDATE writes the flag the thread computed.
ToggleCommit(w) ==
    /\ inflight[w].pc = "commit"
    /\ inflight[w].route = "/toggle"
    /\ tasks' = [tasks EXCEPT ![inflight[w].task_id].done = inflight[w].value]
    /\ Finish(w, Redirect("Task status updated.", "/index"))
    /\ UNCHANGED <<users, session, regpw>>

InitRace ==
    /\ \E start \in RaceStarts :
           /\ users = start.users
           /\ tasks = start.tasks
           /\ session = start.session
           /\ regpw = start.regpw
    /\ inflight \in [Workers -> RaceRequests]

NextRace ==
    \E w \in Workers :
        \/ RegisterCheckUsername(w)
        \/ RegisterCheckEmail(w)
        \/ RegisterCommit(w)
        \/ ToggleGet(w)
        \/ ToggleCommit(w)

SpecRace == InitRace /\ [][NextRace]_vars

---------------------------------------------------------------------------
(* Properties.  Each is stated of State, the state a request finds, and of *)
(* what the handler makes of it, for every value of the form fields.      *)

NotFoundMessage == "Task not found or unauthorized action."

EmptyTextMessage == "Please enter text for your task"

\* The session holds the identity of a user.
LoggedIn == session # None /\ session \in DOMAIN users

\* No task t exists, or its owner is not the user of the session.
NotOwn(t) == t \notin DOMAIN tasks \/ tasks[t].user_id # session

\* The result leaves the Task table as the request found it and reports
\* that the task was not found or the action unauthorized.
Refused(result) ==
    result.tasks = tasks /\ result.resp.flash = NotFoundMessage

\* C1 as claimed: with an identity in the session, a toggle, an edit (with
\* any text) or a delete of a task that does not exist or that another user
\* owns leaves the Task table unchanged and reports 'not found or
\* unauthorized'.
C1_AsClaimed ==
    LoggedIn =>
        \A t \in TaskIds :
            NotOwn(t) =>
                /\ Refused(toggle_status(State, t))
                /\ \A text \in Texts : Refused(edit_task(State, t, text))
                /\ Refused(delete_task(State, t))

\* C1 as amended: a toggle, a delete or an edit with non-empty text of a
\* task that does not exist or that another user owns leaves the Task table
\* unchanged and reports 'not found or unauthorized'; an edit with empty
\* text leaves the table unchanged too and reports the empty text instead.
C1_ForeignTaskRefused ==
    LoggedIn =>
        \A t \in TaskIds :
            NotOwn(t) =>
                /\ Refused(toggle_status(State, t))
                /\ \A text \in Texts \ {""} : Refused(edit_task(State, t, text))
                /\ edit_task(State, t, "").tasks = tasks
                /\ edit_task(State, t, "").resp.flash = EmptyTextMessage
                /\ Refused(delete_task(State, t))
                /\ (t \in DOMAIN tasks => t \in DOMAIN delete_task(State, t).tasks)

\* A user is logged in, another user's undone task exists, and the delete,
\* the toggle and the edit of it are refused.
C1_Witness ==
    /\ LoggedIn
    /\ \E t \in DOMAIN tasks :
           /\ tasks[t].user_id # session
           /\ ~tasks[t].done
           /\ Refused(delete_task(State, t))
           /\ Refused(toggle_status(State, t))
           /\ Refused(edit_task(State, t, "Call mom"))

\* The rows of the Task table whose owner is u, each with its id.
RowsOwnedBy(u) ==
    { [id |-> t, content |-> tasks[t].content, done |-> tasks[t].done,
       due_date |-> tasks[t].due_date, user_id |-> tasks[t].user_id] :
      t \in { i \in DOMAIN tasks : tasks[i].user_id = u } }

\* C2: the list /index renders for the logged-in user is exactly the rows
\* of the Task table he owns: none of another user, none of his missing.
C2_IndexListsOwnTasks ==
    LoggedIn =>
        LET r == tasks_list(State).resp IN
        /\ r.kind = "render" /\ r.target = "index.html"
        /\ r.tasks = RowsOwnedBy(session)
        /\ \A row \in r.tasks : row.user_id = session
        /\ \A t \in DOMAIN tasks :
               tasks[t].user_id = session => \E row \in r.tasks : row.id = t

\* The logged-in user and another user both own a task, and /index lists
\* the first one's only.
C2_Witness ==
    /\ LoggedIn
    /\ \E t1, t2 \in DOMAIN tasks :
           tasks[t1].user_id = session /\ tasks[t2].user_id # session
    /\ Cardinality(tasks_list(State).resp.tasks) = 1

UsernameTaken(username) == \E u \in DOMAIN users : users[u].username = username

EmailTaken(email) == \E u \in DOMAIN users : users[u].email = email

\* C3: no two User rows share a username or an email; a register request
\* with a username or an email of an existing user fails and adds no row,
\* and one with a new username and a new email adds exactly one row, with
\* that username and email.
C3_UsernameEmailUnique ==
    /\ \A u, v \in DOMAIN users :
           u # v => /\ users[u].username # users[v].username
                    /\ users[u].email # users[v].email
    /\ \A username \in Usernames, email \in Emails, password \in Passwords,
          salt \in Salts :
           LET r == register(State, username, email, password, salt) IN
           IF UsernameTaken(username) \/ EmailTaken(email)
           THEN /\ r.users = users
                /\ r.resp.flash \in
                       {"Username already exists. Please choose another one.",
                        "Email already registered. Please log in."}
           ELSE /\ Cardinality(DOMAIN r.users) = Cardinality(DOMAIN users) + 1
                /\ \A u \in DOMAIN users :
                       u \in DOMAIN r.users /\ r.users[u] = users[u]
                /\ \E u \in DOMAIN r.users \ DOMAIN users :
                       /\ r.users[u].username = username
                       /\ r.users[u].email = email
                /\ r.resp.flash = "Registration successful! Please log in."

\* One user is registered, and a register request with a new username and
\* his email is refused, as is one with his username and a new email.
C3_Witness ==
    /\ Cardinality(DOMAIN users) = 1
    /\ \E username \in Usernames, email \in Emails :
           /\ ~UsernameTaken(username) /\ EmailTaken(email)
           /\ register(State, username, email, "pw", "s1").users = users
    /\ \E username \in Usernames, email \in Emails :
           /\ UsernameTaken(username) /\ ~EmailTaken(email)
           /\ register(State, username, email, "pw", "s1").users = users

\* C4: a login with an unknown username, or with a password that is not
\* the one the user registered with, fails and leaves the identity of the
\* session as it was; a login with a registered username and its
\* registration password succeeds and makes that user the session's.
C4_LoginChecksPassword ==
    \A username \in Usernames, password \in Passwords :
        LET r == login(State, username, password) IN
        IF \E u \in DOMAIN users :
               users[u].username = username /\ regpw[u] = password
        THEN /\ r.session \in DOMAIN users
             /\ users[r.session].username = username
             /\ r.resp.flash = "Login successful!"
        ELSE /\ r.session = session
             /\ r.resp.flash \in {"Login failed. Incorrect password.",
                                  "Username does not exist. Please register."}

\* One user is logged in, a second is registered, and a login with the
\* second's name and another password than his leaves the first logged in,
\* while his own password logs him in.
C4_Witness ==
    /\ LoggedIn
    /\ \E u \in DOMAIN users, password \in Passwords :
           /\ u # session
           /\ password # regpw[u]
           /\ login(State, users[u].username, password).session = session
           /\ login(State, users[u].username, regpw[u]).session = u

\* The result is the redirect to the login page, with both tables as the
\* request found them.
SentToLogin(result) ==
    /\ result.resp.kind = "redirect" /\ result.resp.target = "/login"
    /\ result.users = users /\ result.tasks = tasks

\* C5: with no identity in the session, every protected route redirects to
\* the login page and leaves the User and Task tables unchanged; logout
\* always leaves the session without an identity.
C5_ProtectedRoutesNeedLogin ==
    /\ logout(State).session = None
    /\ session = None =>
           /\ SentToLogin(logout(State))
           /\ SentToLogin(tasks_list(State))
           /\ \A content \in Texts, due_date \in DateTexts,
                 id \in TaskIds \ DOMAIN tasks :
                  SentToLogin(add_task(State, content, due_date, id))
           /\ \A t \in TaskIds : SentToLogin(toggle_status(State, t))
           /\ \A t \in TaskIds, text \in Texts :
                  SentToLogin(edit_task(State, t, text))
           /\ \A t \in TaskIds : SentToLogin(delete_task(State, t))
           /\ SentToLogin(resolve_tasks(State))
           /\ \A now \in Nows : SentToLogin(analytics(State, now))

\* A user has logged in, added a task and logged out: the session holds no
\* identity, and the delete of his task is sent to the login page.
C5_Witness ==
    /\ session = None
    /\ \E t \in DOMAIN tasks :
           /\ ~tasks[t].done
           /\ SentToLogin(delete_task(State, t))
           /\ SentToLogin(toggle_status(State, t))

\* The value of a decimal digit, and of two.
DecimalDigit(c) ==
    CHOOSE n \in 0..9 : <<"0", "1", "2", "3", "4", "5", "6", "7", "8", "9">>[n + 1] = c

TwoDigits(a, b) == 10 * DecimalDigit(a) + DecimalDigit(b)

\* The calendar date a text of the form YYYY-MM-DD names, as <<year, month,
\* day>>; <<>> when the text has not that form or names no date.
CalendarDate(text) ==
    IF /\ Len(text) = 10
       /\ text[5] = "-" /\ text[8] = "-"
       /\ \A i \in {1, 2, 3, 4, 6, 7, 9, 10} : text[i] \in Digits
    THEN LET year == 100 * TwoDigits(text[1], text[2]) + TwoDigits(text[3], text[4])
             month == TwoDigits(text[6], text[7])
             day == TwoDigits(text[9], text[10])
             leap == year % 4 = 0 /\ (year % 100 # 0 \/ year % 400 = 0)
             days == <<31, IF leap THEN 29 ELSE 28, 31, 30, 31, 30, 31, 31, 30,
                       31, 30, 31>>
         IN  IF year >= 1 /\ month \in 1..12 /\ day >= 1 /\ day <= days[month]
             THEN <<year, month, day>>
             ELSE <<>>
    ELSE <<>>

\* A month or a day of one digit, or a day of a blank and a digit, written
\* with two digits; any other text as it is.
PadField(field, blank) ==
    IF Len(field) = 1 THEN <<"0">> \o field
    ELSE IF blank /\ Len(field) = 2 /\ field[1] = " " THEN <<"0", field[2]>>
    ELSE field

\* The text with its month and its day written with two digits each.
Padded(text) ==
    IF Len(text) >= 8 /\ text[5] = "-" /\ \E i \in 7..8 : text[i] = "-"
    THEN LET dash == CHOOSE i \in 7..8 : text[i] = "-" /\ (i = 8 => text[7] # "-")
         IN  SubSeq(text, 1, 5) \o PadField(SubSeq(text, 6, dash - 1), FALSE)
                 \o <<"-">> \o PadField(SubSeq(text, dash + 1, Len(text)), TRUE)
    ELSE text

\* What add_task makes of a request of the logged-in user, given the date
\* the due date text names (<<>> for none): a rejection that leaves the
\* Task table unchanged when the content is empty or the text names no
\* date, and otherwise exactly one new row, owned by the user, not done,
\* due at midnight of that date, with every other row unchanged.
AddTaskOutcome(content, due_date, id, date) ==
    LET r == add_task(State, content, due_date, id) IN
    IF content = "" \/ date = <<>>
    THEN /\ r.tasks = tasks
         /\ r.resp.flash \in {EmptyTextMessage,
                              "Invalid date format. Please use YYYY-MM-DD."}
    ELSE /\ DOMAIN r.tasks = DOMAIN tasks \cup {id}
         /\ r.tasks[id] = [content |-> content, done |-> FALSE,
                           due_date |-> date \o <<0>>, user_id |-> session]
         /\ \A t \in DOMAIN tasks : r.tasks[t] = tasks[t]
         /\ r.resp.flash = "Task added successfully!"

\* C6 as claimed: add-task is rejected, the Task table unchanged, when the
\* content is empty or the due date text is not a valid calendar date in
\* the form YYYY-MM-DD; otherwise it adds exactly one row, owned by the
\* acting user, not done, with that due date, and changes no other row.
C6_AsClaimed ==
    LoggedIn =>
        \A content \in Texts, due_date \in DateTexts,
           id \in TaskIds \ DOMAIN tasks :
            AddTaskOutcome(content, due_date, id, CalendarDate(due_date))

\* C6 as amended: the due date text is accepted when it names a valid
\* calendar date as a year of four digits, a month of one or two digits and
\* a day of one or two digits (or a blank and a digit), separated by "-":
\* "2024-2-29" is accepted as "2024-02-29" is.  The rest is as claimed.
C6_AddTaskValidates ==
    LoggedIn =>
        \A content \in Texts, due_date \in DateTexts,
           id \in TaskIds \ DOMAIN tasks :
            AddTaskOutcome(content, due_date, id, CalendarDate(Padded(due_date)))

\* A user is logged in and owns a task, an id is free, and add-task rejects
\* the empty content and the date 2024-02-30 and adds a row for 2024-02-29.
C6_Witness ==
    /\ LoggedIn
    /\ \E t \in DOMAIN tasks : tasks[t].user_id = session
    /\ \E id \in TaskIds \ DOMAIN tasks :
           /\ add_task(State, "", <<"2","0","2","4","-","0","2","-","2","9">>,
                       id).tasks = tasks
           /\ add_task(State, "Buy milk",
                       <<"2","0","2","4","-","0","2","-","3","0">>, id).tasks = tasks
           /\ id \in DOMAIN add_task(State, "Buy milk",
                          <<"2","0","2","4","-","0","2","-","2","9">>, id).tasks

\* C7: every Task row has non-empty content; add-task and edit requests
\* with empty text are rejected without changing a row, the edit before
\* the owner is looked at; an edit by the owner with non-empty text
\* replaces the content of that task and nothing else.
C7_ContentNeverEmpty ==
    /\ \A t \in DOMAIN tasks : tasks[t].content # ""
    /\ LoggedIn =>
           /\ \A due_date \in DateTexts, id \in TaskIds \ DOMAIN tasks :
                  LET r == add_task(State, "", due_date, id) IN
                  r.tasks = tasks /\ r.resp.flash = EmptyTextMessage
           /\ \A t \in TaskIds :
                  LET r == edit_task(State, t, "") IN
                  r.tasks = tasks /\ r.resp.flash = EmptyTextMessage
           /\ \A t \in DOMAIN tasks, text \in Texts \ {""} :
                  tasks[t].user_id = session =>
                      LET r == edit_task(State, t, text) IN
                      /\ DOMAIN r.tasks = DOMAIN tasks
                      /\ r.tasks[t] = [content |-> text,
                                       done |-> tasks[t].done,
                                       due_date |-> tasks[t].due_date,
                                       user_id |-> tasks[t].user_id]
                      /\ \A o \in DOMAIN tasks \ {t} : r.tasks[o] = tasks[o]
                      /\ r.resp.flash = "Task updated successfully."

\* The logged-in user owns a done task whose content an edit has replaced,
\* beside another user's task, and an edit with empty text is rejected.
C7_Witness ==
    /\ LoggedIn
    /\ \E t, o \in DOMAIN tasks :
           /\ tasks[t].user_id = session /\ tasks[o].user_id # session
           /\ tasks[t].done
           /\ tasks[t].content = "Call mom"
           /\ edit_task(State, t, "Buy milk").tasks[t].content = "Buy milk"
           /\ edit_task(State, t, "").tasks = tasks

\* C8: a toggle of a task the acting user owns flips its done flag and
\* changes nothing else, and a second toggle of it, served right after the
\* first, returns the Task table to what it was before the first.
C8_ToggleTwiceRestores ==
    LoggedIn =>
        \A t \in DOMAIN tasks :
            tasks[t].user_id = session =>
                LET once == toggle_status(State, t)
                    twice == toggle_status(once, t)
                IN  /\ DOMAIN once.tasks = DOMAIN tasks
                    /\ once.tasks[t] = [content |-> tasks[t].content,
                                        done |-> ~tasks[t].done,
                                        due_date |-> tasks[t].due_date,
                                        user_id |-> tasks[t].user_id]
                    /\ \A o \in DOMAIN tasks \ {t} : once.tasks[o] = tasks[o]
                    /\ once.users = users /\ once.session = session
                    /\ twice.tasks = tasks

\* The logged-in user owns a done task, beside another task, and a toggle
\* of it makes it undone.
C8_Witness ==
    /\ LoggedIn
    /\ \E t, o \in DOMAIN tasks :
           /\ t # o
           /\ tasks[t].user_id = session
           /\ tasks[t].done
           /\ ~toggle_status(State, t).tasks[t].done

\* C9: after a resolve-all of user U every task of U is done and every
\* task of another user is as it was; a second resolve-all right after the
\* first leaves the Task table as the first left it.
C9_ResolveAllIdempotent ==
    LoggedIn =>
        LET once == resolve_tasks(State)
            twice == resolve_tasks(once)
        IN  /\ DOMAIN once.tasks = DOMAIN tasks
            /\ \A t \in DOMAIN tasks :
                   IF tasks[t].user_id = session
                   THEN once.tasks[t] = [content |-> tasks[t].content,
                                         done |-> TRUE,
                                         due_date |-> tasks[t].due_date,
                                         user_id |-> tasks[t].user_id]
                   ELSE once.tasks[t] = tasks[t]
            /\ once.session = session
            /\ twice.tasks = once.tasks

\* The logged-in user and another user both own an undone task, and a
\* resolve-all marks the first one's done.
C9_Witness ==
    /\ LoggedIn
    /\ \E t, o \in DOMAIN tasks :
           /\ tasks[t].user_id = session /\ ~tasks[t].done
           /\ tasks[o].user_id # session /\ ~tasks[o].done
           /\ resolve_tasks(State).tasks[t].done

\* An instant as a number that grows with time.
Instant(dt) == ((dt[1] * 12 + dt[2]) * 31 + dt[3]) * 2 + dt[4]

\* C10: /analytics reports of the logged-in user U the number of tasks U
\* owns, the number of them that are done, their difference, and the number
\* of them that have a due date strictly before the current time and are
\* not done; so overdue <= pending and completed + pending = total; other
\* users' tasks do not count, and the request changes no state.
C10_AnalyticsCounts ==
    LoggedIn =>
        \A now \in Nows :
            LET r == analytics(State, now)
                own == { t \in DOMAIN tasks : tasks[t].user_id = session }
                total == Cardinality(own)
                completed == Cardinality({ t \in own : tasks[t].done })
                overdue ==
                    Cardinality({ t \in own :
                        /\ tasks[t].due_date # Null
                        /\ Instant(tasks[t].due_date) < Instant(now)
                        /\ ~tasks[t].done })
            IN  /\ r.resp.kind = "render" /\ r.resp.target = "analytics.html"
                /\ r.resp.stats = [total_tasks |-> total,
                                   completed_tasks |-> completed,
                                   pending_tasks |-> total - completed,
                                   overdue_tasks |-> overdue]
                /\ r.resp.stats.overdue_tasks <= r.resp.stats.pending_tasks
                /\ r.resp.stats.completed_tasks + r.resp.stats.pending_tasks
                       = r.resp.stats.total_tasks
                /\ r.users = users /\ r.tasks = tasks /\ r.session = session

\* The logged-in user owns one undone task, due 2024-02-29, and another
\* user owns an undone task due the same day: the analytics of the first
\* count one pending task, overdue later that day and not at its midnight.
C10_Witness ==
    /\ LoggedIn
    /\ \E t, o \in DOMAIN tasks :
           /\ tasks[t].user_id = session /\ tasks[o].user_id # session
           /\ ~tasks[t].done /\ ~tasks[o].done
           /\ tasks[t].due_date = <<2024, 2, 29, 0>>
           /\ tasks[o].due_date = <<2024, 2, 29, 0>>
    /\ analytics(State, <<2024, 2, 29, 1>>).resp.stats =
           [total_tasks |-> 1, completed_tasks |-> 0, pending_tasks |-> 1,
            overdue_tasks |-> 1]
    /\ analytics(State, <<2024, 2, 29, 0>>).resp.stats.overdue_tasks = 0

Date20990101 == <<"2","0","9","9","-","0","1","-","0","1">>

\* C12: from the empty tables, register(alice, a@x.com, pw), login(alice,
\* pw), add task "Buy milk" due 2099-01-01, /index, toggle of that task and
\* /analytics go as follows, whatever salt and task id are drawn: the login
\* succeeds, /index shows exactly one task, not done, and after the toggle
\* the analytics, at any time before 2099-01-01, report completed_tasks=1,
\* pending_tasks=0 and overdue_tasks=0.
C12_EndToEnd ==
    State = EmptyState =>
        \A salt \in Salts, id \in TaskIds :
            LET s1 == register(State, "alice", "a@x.com", "pw", salt)
                s2 == login(s1, "alice", "pw")
                s3 == add_task(s2, "Buy milk", Date20990101, id)
                s4 == tasks_list(s3)
                s5 == toggle_status(s4, id)
            IN  /\ s2.resp.flash = "Login successful!"
                /\ s2.session \in DOMAIN s2.users
                /\ s2.users[s2.session].username = "alice"
                /\ Cardinality(s4.resp.tasks) = 1
                /\ \A row \in s4.resp.tasks :
                       /\ row.id = id /\ row.content = "Buy milk"
                       /\ ~row.done /\ row.user_id = s2.session
                /\ \A now \in Nows :
                       Instant(now) < Instant(<<2099, 1, 1, 0>>) =>
                           analytics(s5, now).resp.stats =
                               [total_tasks |-> 1, completed_tasks |-> 1,
                                pending_tasks |-> 0, overdue_tasks |-> 0]

\* The state the trace ends in is reached by the requests themselves: alice
\* alone is registered and logged in, her one task "Buy milk", due
\* 2099-01-01, is done, and the analytics count it completed.
C12_Witness ==
    /\ Cardinality(DOMAIN users) = 1
    /\ LoggedIn
    /\ users[session].username = "alice" /\ users[session].email = "a@x.com"
    /\ regpw[session] = "pw"
    /\ Cardinality(DOMAIN tasks) = 1
    /\ \A t \in DOMAIN tasks :
           /\ tasks[t] = [content |-> "Buy milk", done |-> TRUE,
                          due_date |-> <<2099, 1, 1, 0>>, user_id |-> session]
           /\ tasks = toggle_status(add_task(
                          login(register(EmptyState, "alice", "a@x.com", "pw", "s1"),
                                "alice", "pw"),
                          "Buy milk", Date20990101, t), t).tasks
    /\ analytics(State, <<2024, 2, 29, 1>>).resp.stats =
           [total_tasks |-> 1, completed_tasks |-> 1, pending_tasks |-> 0,
            overdue_tasks |-> 0]

\* C13: a request served with identity A in the session (or with none)
\* leaves every Task row of another owner in place and unchanged, gives a
\* row it creates the owner A, and changes the owner of no row; and the
\* owner of every Task row is a row of the User table.
C13_OnlyOwnTasksTouched ==
    /\ [](\A t \in DOMAIN tasks : tasks[t].user_id \in DOMAIN users)
    /\ [][\A t \in TaskIds :
              /\ (t \in DOMAIN tasks /\ tasks[t].user_id # session) =>
                     (t \in DOMAIN tasks' /\ tasks'[t] = tasks[t])
              /\ (t \in DOMAIN tasks' /\ t \notin DOMAIN tasks) =>
                     (session # None /\ tasks'[t].user_id = session)
              /\ (t \in DOMAIN tasks /\ t \in DOMAIN tasks') =>
                     tasks'[t].user_id = tasks[t].user_id]_vars

\* Two users own a task each; the one logged in has edited his and marked
\* it done, the other's is as it was created.
C13_Witness ==
    /\ LoggedIn
    /\ \E t, o \in DOMAIN tasks :
           /\ tasks[t].user_id = session
           /\ tasks[t].done /\ tasks[t].content = "Call mom"
           /\ tasks[o].user_id \in DOMAIN users \ {session}
           /\ ~tasks[o].done /\ tasks[o].content = "Buy milk"
           /\ delete_task(State, o).tasks = tasks

\* C14: every request leaves each User row in place and unchanged; the
\* User table changes only by a register request with a new username and a
\* new email, which adds one row; so the identity in the session is always
\* that of a row of the User table.
C14_UsersOnlyGrow ==
    /\ [](session # None => session \in DOMAIN users)
    /\ [][/\ \A u \in DOMAIN users :
                 u \in DOMAIN users' /\ users'[u] = users[u]
          /\ users' # users =>
                 /\ Cardinality(DOMAIN users') = Cardinality(DOMAIN users) + 1
                 /\ tasks' = tasks /\ session' = session
                 /\ \E username \in Usernames, email \in Emails,
                       password \in Passwords, salt \in Salts :
                        /\ ~UsernameTaken(username) /\ ~EmailTaken(email)
                        /\ users' = register(State, username, email, password,
                                             salt).users]_vars

\* Two users are registered and the second is logged in, while a register
\* request with the first one's username changes nothing.
C14_Witness ==
    /\ Cardinality(DOMAIN users) = 2
    /\ session = 2
    /\ register(State, users[1].username, users[2].email, "pw2", "s1").users = users
    /\ register(State, users[1].username, users[2].email, "pw", "s1").users = users

\* C16: every Task row has a due date; add-task with non-empty content
\* and empty due date text is rejected as a date-format error and adds no
\* row; and no request changes the due date of a row.
C16_EveryTaskHasDueDate ==
    /\ [](/\ \A t \in DOMAIN tasks : tasks[t].due_date # Null
          /\ LoggedIn =>
                 \A content \in Texts \ {""}, id \in TaskIds \ DOMAIN tasks :
                     LET r == add_task(State, content, <<>>, id) IN
                     /\ r.tasks = tasks
                     /\ r.resp.flash = "Invalid date format. Please use YYYY-MM-DD.")
    /\ [][\A t \in DOMAIN tasks :
              t \in DOMAIN tasks' => tasks'[t].due_date = tasks[t].due_date]_vars

\* The logged-in user owns a task that has been edited and marked done and
\* still is due 2024-02-29, and his add-task with empty due date text is
\* rejected.
C16_Witness ==
    /\ LoggedIn
    /\ \E t \in DOMAIN tasks :
           /\ tasks[t].user_id = session
           /\ tasks[t].done /\ tasks[t].content = "Call mom"
           /\ tasks[t].due_date = <<2024, 2, 29, 0>>
    /\ \E id \in TaskIds \ DOMAIN tasks :
           add_task(State, "Buy milk", <<>>, id).tasks = tasks

RegistrationSucceeded(r) ==
    /\ r.route = "/register" /\ r.pc = "done"
    /\ r.resp.flash = "Registration successful! Please log in."

\* C15: with two register requests served at once, both allowed to run
\* their checks before either commits, no two User rows ever share a
\* username or an email, and of two requests with the same username or the
\* same email at most one persists a row.
C15_UniqueUnderInterleaving ==
    /\ \A u, v \in DOMAIN users :
           u # v => /\ users[u].username # users[v].username
                    /\ users[u].email # users[v].email
    /\ \A v, w \in Workers :
           (/\ v # w
            /\ RegistrationSucceeded(inflight[v])
            /\ RegistrationSucceeded(inflight[w])) =>
               /\ inflight[v].username # inflight[w].username
               /\ inflight[v].email # inflight[w].email
    /\ \A w \in Workers :
           RegistrationSucceeded(inflight[w]) =>
               \E u \in DOMAIN users :
                   /\ users[u].username = inflight[w].username
                   /\ users[u].email = inflight[w].email

\* Two register requests with the same username and different emails have
\* both passed their checks on the empty table; one has committed its row
\* and the commit of the other has failed.
C15_Witness ==
    /\ Cardinality(DOMAIN users) = 1
    /\ \E v, w \in Workers :
           /\ v # w
           /\ inflight[v].username = inflight[w].username
           /\ inflight[v].email # inflight[w].email
           /\ RegistrationSucceeded(inflight[v])
           /\ inflight[w].route = "/register" /\ inflight[w].pc = "done"
           /\ inflight[w].resp.kind = "error"

\* C17 as claimed: when two toggle requests of the owner on the same task,
\* served at once, have both ended with the status updated, the done flag
\* is what it was before both; the task was created undone and nothing else
\* touches it.
C17_AsClaimed ==
    \A t \in DOMAIN tasks :
        (\A w \in Workers :
             /\ inflight[w].route = "/toggle" /\ inflight[w].task_id = t
             /\ inflight[w].pc = "done"
             /\ inflight[w].resp.flash = "Task status updated.") =>
            tasks[t].done = FALSE

\* C11 as claimed: a request that has ended in an error of the taxonomy, a
\* register request that persisted no row or a toggle request that updated
\* no task, carries a message and is answered with a redirect to a page of
\* the application, never with a raw error page.
C11_AsClaimed ==
    \A w \in Workers :
        (/\ inflight[w].pc = "done"
         /\ ~RegistrationSucceeded(inflight[w])
         /\ inflight[w].resp.flash # "Task status updated.") =>
            /\ inflight[w].resp.kind = "redirect"
            /\ inflight[w].resp.flash # ""
            /\ inflight[w].resp.target \in {"/index", "/login", "/register"}

====
